---- MODULE Spec2Model ----
\* Model of the S3 -> Qdrant ingestion pipeline (s3_to_qdrant.py) and of the
\* collection seeding script (app/create-collection-qdrant.py) that bootstraps
\* the same "incidents" collection.
EXTENDS Integers, Sequences, FiniteSets, TLC

\* ---------------------------------------------------------------- bounds
MaxRuns == 2        \* invocations of ingest_from_s3 in one behaviour
MaxObjs == 2        \* keys present in the bucket at one time
MaxChunks == 2      \* chunks of the longest document

\* ------------------------------------------------------ program constants
VectorSize == 384
OtherSize == 2 * VectorSize   \* a dimensionality a foreign collection may have
NumSampleDocs == 5

NotReturned == <<>> \* nothing returned yet, no count recorded yet (else <<n>>)
NoPath == <<>>      \* no local path, no key

\* ------------------------------------------------------------- strings
\* A string is a sequence of one-character strings.
DigitChar == <<"0", "1", "2", "3", "4", "5", "6", "7", "8", "9">>

RECURSIVE Decimal(_)
\* str(i) inside the f-string of the chunk id
Decimal(i) ==
    IF i < 10 THEN <<DigitChar[i + 1]>>
    ELSE Decimal(i \div 10) \o <<DigitChar[(i % 10) + 1]>>

\* position of the last occurrence of character c in s, 0 when there is none
LastIndexOf(s, c) ==
    LET hits == {i \in 1..Len(s) : s[i] = c}
    IN IF hits = {} THEN 0 ELSE CHOOSE i \in hits : \A j \in hits : j <= i

EndsWithSlash(key) == Len(key) > 0 /\ key[Len(key)] = "/"

\* os.path.basename(key)
Basename(key) == SubSeq(key, LastIndexOf(key, "/") + 1, Len(key))

\* pathlib.Path(path).suffix.lower() (the keys of the model are lower case)
Suffix(path) ==
    LET name == Basename(path)
        dot == LastIndexOf(name, ".")
    IN IF dot <= 1 \/ dot = Len(name) THEN <<>> ELSE SubSeq(name, dot, Len(name))

\* hashlib.md5(s.encode("utf-8")).hexdigest(): the digest is represented by
\* its preimage (no two of the strings hashed here collide under MD5).
md5_id(s) == <<"md5", s>>

\* ------------------------------------------------------------ the bucket
K_an == <<"a", "/", "n">>
K_bn == <<"b", "/", "n">>
K_dir == <<"d", "/">>
K_pdf == <<"r", ".", "p", "d", "f">>

\* The keys an S3 listing can return, in the order S3 lists them (ascending).
CatalogueKeys == <<K_an, K_bn, K_dir, K_pdf>>

AllKeys == {CatalogueKeys[i] : i \in 1..Len(CatalogueKeys)}

\* Number of chunks RecursiveCharacterTextSplitter yields for the (unchanging)
\* content stored under a key.
NChunks(key) == IF key = K_bn THEN MaxChunks ELSE 1

\* LastModified that head_object reports for the (unchanging) object of a key
LastModifiedOf(key) == IF key = K_an THEN 1 ELSE 2

PdfSuffix == <<".", "p", "d", "f">>
DocSuffixes == {<<".", "d", "o", "c", "x">>, <<".", "d", "o", "c">>}

\* choose_loader_for_path: the PDF and Word loaders it names are not imported,
\* so these branches raise NameError; everything else gets TextLoader.
LoaderFor(path) ==
    IF Suffix(path) = PdfSuffix THEN "NameError"
    ELSE IF Suffix(path) \in DocSuffixes THEN "NameError"
    ELSE "TextLoader"

\* list_s3_objects: the keys of the bucket in listing order, "folders" skipped
list_s3_objects(b) ==
    SelectSeq(CatalogueKeys, LAMBDA k : k \in b /\ ~EndsWithSlash(k))

\* ------------------------------------------------------------- Qdrant
\* The collection named "incidents" as the index holds it.
Absent == [exists |-> FALSE, size |-> 0, distance |-> "-", points |-> {}]

CosineCollection_dot ==
    [exists |-> TRUE, size |-> VectorSize, distance |-> "Dot", points |-> {}]

\* VectorParams(size=vector_size, distance=Distance.COSINE), no points yet
CosineCollection ==
    [exists |-> TRUE, size |-> VectorSize, distance |-> "Cosine", points |-> {}]

Points(c) == c.points

ConfigOf(c) == [exists |-> c.exists, size |-> c.size, distance |-> c.distance]

NoMeta == [Key |-> NoPath, LastModified |-> 0]
NoBatch == [s3_key |-> NoPath, dry |-> FALSE, points |-> {}]

\* add_texts(texts, metadatas, ids): an upsert keyed by point id
UpsertPoints(points, new) ==
    {p \in points : \A q \in new : q.id # p.id} \cup new

CountForKey(c, key) == Cardinality({p \in Points(c) : p.s3_key = key})

VARIABLES
    bucket,         \* keys present in the S3 bucket
    coll,           \* the "incidents" collection: Absent or [size, distance, points]
    files,          \* local paths present in the staging directory
    pc,             \* position of the run inside ingest_from_s3
    run,            \* number of runs started
    dry_run, delete_local,
    s3_objs,        \* the listing of the current run
    pos,            \* index of the loop "for obj in s3_objs"
    local_path, head_meta, docs_chunks,
    batch,          \* texts/metadatas/ids prepared by upsert_chunks_to_qdrant
    total_chunks,
    returned,       \* value returned (and total printed) by the run
    err,            \* exception propagating out of the run, or ""
    spc,            \* position of the seeding script
    \* history
    results,        \* per object of this run: key, outcome, count returned
    bootDone,       \* ensure_qdrant_collection has returned in this run
    creates,        \* create-collection calls issued by this run
    rmFailed,       \* an os.remove of this run raised OSError
    entriesAtStart, \* points of the collection when the run started
    upserts,        \* add_texts calls issued by this run
    upsertLog,      \* configurations the collection had when add_texts was issued
    firstCount,     \* entries of a key right after its first successful ingestion
    initColl        \* configuration of the collection in the initial state

envVars == <<bucket, coll, files>>
runVars == <<pc, run, dry_run, delete_local, s3_objs, pos, local_path, head_meta,
             docs_chunks, batch, total_chunks, returned, err>>
seedVars == <<spc>>
histVars == <<results, bootDone, creates, rmFailed, entriesAtStart, upserts,
              upsertLog, firstCount, initColl>>
vars == <<envVars, runVars, seedVars, histVars>>

Terminal == {"idle", "done", "returned0", "aborted"}

Init ==
    /\ bucket \in {b \in SUBSET AllKeys : Cardinality(b) <= MaxObjs}
    /\ coll \in {Absent} \cup
                [exists : {TRUE}, size : {VectorSize, OtherSize},
                 distance : {"Cosine", "Dot"}, points : {{}}]
    /\ files = {}
    /\ pc = "idle"
    /\ run = 0
    /\ dry_run = FALSE
    /\ delete_local = TRUE
    /\ s3_objs = <<>>
    /\ pos = 0
    /\ local_path = NoPath
    /\ head_meta = NoMeta
    /\ docs_chunks = 0
    /\ batch = NoBatch
    /\ total_chunks = 0
    /\ returned = NotReturned
    /\ err = ""
    /\ spc = "idle"
    /\ results = <<>>
    /\ bootDone = FALSE
    /\ creates = 0
    /\ rmFailed = FALSE
    /\ entriesAtStart = {}
    /\ upserts = 0
    /\ upsertLog = {}
    /\ firstCount = [k \in AllKeys |-> NotReturned]
    /\ initColl = ConfigOf(coll)

\* ------------------------------------------------------- the object store
\* An object is uploaded to the bucket between runs (a change during a run
\* shows up in the run as a download failure).
PutObject ==
    /\ pc \in Terminal
    /\ \E k \in AllKeys \ bucket :
        /\ Cardinality(bucket) < MaxObjs
        /\ bucket' = bucket \cup {k}
    /\ UNCHANGED <<coll, files, runVars, seedVars, histVars>>

\* --------------------------------------------------------- ingest_from_s3
Abort_swallow(e) ==
    /\ err' = e
    /\ pc' = "report"

\* an exception raised outside the per-object try blocks leaves ingest_from_s3
Abort(e) ==
    /\ err' = e
    /\ pc' = "aborted"

\* the loop moves on to the next object, or leaves the loop
NextObject ==
    /\ pos' = pos + 1
    /\ pc' = IF pos + 1 > Len(s3_objs) THEN "report" ELSE "stage"
    /\ local_path' = NoPath
    /\ head_meta' = NoMeta
    /\ docs_chunks' = 0

Record(key, outcome, count) ==
    results' = Append(results, [key |-> key, outcome |-> outcome, count |-> count])

\* lines 165-178: a new invocation; the staging directory is a fresh mkdtemp
StartRun ==
    /\ pc \in Terminal
    /\ run < MaxRuns
    /\ run' = run + 1
    /\ dry_run' \in BOOLEAN
    /\ delete_local' \in BOOLEAN
    /\ files' = {}
    /\ pc' = "enumerate"
    /\ s3_objs' = <<>>
    /\ pos' = 0
    /\ local_path' = NoPath
    /\ head_meta' = NoMeta
    /\ docs_chunks' = 0
    /\ batch' = NoBatch
    /\ total_chunks' = 0
    /\ returned' = NotReturned
    /\ err' = ""
    /\ results' = <<>>
    /\ bootDone' = FALSE
    /\ creates' = 0
    /\ rmFailed' = FALSE
    /\ entriesAtStart' = Points(coll)
    /\ upserts' = 0
    /\ UNCHANGED <<bucket, coll, seedVars, upsertLog, firstCount, initColl>>

\* lines 179-182
Enumerate ==
    /\ pc = "enumerate"
    /\ \/ /\ Abort("ListError")
          /\ UNCHANGED <<s3_objs, returned>>
       \/ /\ s3_objs' = list_s3_objects(bucket)
          /\ IF s3_objs' = <<>>
             THEN /\ pc' = "returned0"
                  /\ returned' = <<0>>
                  /\ err' = err
             ELSE /\ pc' = "boot_list"
                  /\ UNCHANGED <<returned, err>>
    /\ UNCHANGED <<envVars, run, dry_run, delete_local, pos, local_path, head_meta,
                   docs_chunks, batch, total_chunks, seedVars, histVars>>

\* ensure_qdrant_collection, lines 116-119: get_collections and the test
BootList ==
    /\ pc = "boot_list"
    /\ \/ /\ Abort("QdrantError")
          /\ UNCHANGED bootDone
       \/ /\ coll.exists
          /\ bootDone' = TRUE
          /\ pc' = "vectorstore"
          /\ err' = err
       \/ /\ ~coll.exists
          /\ pc' = "recreate_delete"
          /\ UNCHANGED <<bootDone, err>>
    /\ UNCHANGED <<envVars, run, dry_run, delete_local, s3_objs, pos, local_path,
                   head_meta, docs_chunks, batch, total_chunks, returned, seedVars,
                   results, creates, rmFailed, entriesAtStart, upserts, upsertLog,
                   firstCount, initColl>>

\* lines 121-124: recreate_collection first deletes the named collection ...
RecreateDelete ==
    /\ pc = "recreate_delete"
    /\ creates' = creates + 1
    /\ \/ /\ Abort("QdrantError")
          /\ UNCHANGED coll
       \/ /\ coll' = Absent
          /\ pc' = "recreate_create"
          /\ err' = err
    /\ UNCHANGED <<bucket, files, run, dry_run, delete_local, s3_objs, pos,
                   local_path, head_meta, docs_chunks, batch, total_chunks, returned,
                   seedVars, results, bootDone, rmFailed, entriesAtStart, upserts, upsertLog,
                   firstCount, initColl>>

\* ... and then creates it; creating a collection that exists is refused
RecreateCreate ==
    /\ pc = "recreate_create"
    /\ \/ /\ Abort("QdrantError")
          /\ UNCHANGED <<coll, bootDone>>
       \/ /\ ~coll.exists
          /\ coll' = CosineCollection
          /\ bootDone' = TRUE
          /\ pc' = "vectorstore"
          /\ err' = err
    /\ UNCHANGED <<bucket, files, run, dry_run, delete_local, s3_objs, pos,
                   local_path, head_meta, docs_chunks, batch, total_chunks, returned,
                   seedVars, results, creates, rmFailed, entriesAtStart, upserts, upsertLog,
                   firstCount, initColl>>

\* lines 189-192: embeddings and vector store are built, the loop begins
Vectorstore ==
    /\ pc = "vectorstore"
    /\ \/ /\ Abort("EmbeddingsError")
          /\ UNCHANGED <<pos, total_chunks>>
       \/ /\ total_chunks' = 0
          /\ pos' = 1
          /\ pc' = "stage"
          /\ err' = err
    /\ UNCHANGED <<envVars, run, dry_run, delete_local, s3_objs, local_path,
                   head_meta, docs_chunks, batch, returned, seedVars, histVars>>

Continue_cleanup ==
    /\ pc' = "cleanup"
    /\ UNCHANGED <<pos, local_path, head_meta, docs_chunks>>

\* lines 198-200: download_s3_object raised, "continue" (this except clause is
\* outside the try/finally that removes the file)
Continue == NextObject

\* lines 194-200 and download_s3_object (77-93)
Stage ==
    /\ pc = "stage"
    /\ LET key == s3_objs[pos]
           path == Basename(key)
       IN \/ \* download_file raises: nothing was written
             /\ UNCHANGED files
             /\ Record(key, "stage_failed", 0)
             /\ Continue
          \/ \* download_file wrote the file, head_object raises
             /\ files' = files \cup {path}
             /\ Record(key, "stage_failed", 0)
             /\ Continue
          \/ /\ files' = files \cup {path}
             /\ local_path' = path
             /\ head_meta' = [Key |-> key, LastModified |-> LastModifiedOf(key)]
             /\ pc' = "decode"
             /\ UNCHANGED <<pos, docs_chunks, results>>
    /\ UNCHANGED <<bucket, coll, run, dry_run, delete_local, s3_objs, batch,
                   total_chunks, returned, err, seedVars, bootDone, creates,
                   rmFailed, entriesAtStart, upserts, upsertLog, firstCount, initColl>>

AfterObjectFailure_unwind == "aborted"

\* lines 212-219: "except Exception" swallows the error, the finally runs
AfterObjectFailure == "cleanup"

\* lines 202-203 and load_and_split (107-111)
Decode ==
    /\ pc = "decode"
    /\ \/ /\ Record(s3_objs[pos], "decode_failed", 0)
          /\ pc' = AfterObjectFailure
          /\ UNCHANGED docs_chunks
       \/ /\ LoaderFor(local_path) = "TextLoader"
          /\ docs_chunks' = NChunks(s3_objs[pos])
          /\ pc' = "identify"
          /\ UNCHANGED results
    /\ UNCHANGED <<envVars, run, dry_run, delete_local, s3_objs, pos, local_path,
                   head_meta, batch, total_chunks, returned, err, seedVars,
                   bootDone, creates, rmFailed, entriesAtStart, upserts, upsertLog,
                   firstCount, initColl>>

ChunkId_noindex(s3_key, i) == md5_id(s3_key)

ChunkId_perrun(s3_key, i) ==
    md5_id(s3_key \o <<":", ":">> \o Decimal(i) \o <<":", ":">> \o Decimal(run))

\* line 141: md5_id(f"{s3_key}::{i}")
ChunkId(s3_key, i) == md5_id(s3_key \o <<":", ":">> \o Decimal(i))

\* upsert_chunks_to_qdrant, lines 134-152: one point per chunk
PreparedPoints(s3_key, n, filename, lm, r, p) ==
    {[id |-> ChunkId(s3_key, i), s3_key |-> s3_key, chunk_index |-> i,
      filename |-> filename, s3_last_modified |-> lm, run |-> r, pos |-> p]
        : i \in 0..(n - 1)}

DryRunCount_zero(n) == 0

\* line 157: the dry run returns len(texts)
DryRunCount(n) == n

\* lines 204-209 and upsert_chunks_to_qdrant up to its dry-run return (134-157)
Identify ==
    /\ pc = "identify"
    /\ batch' = [s3_key |-> s3_objs[pos], dry |-> dry_run,
                 points |-> PreparedPoints(s3_objs[pos], docs_chunks, local_path,
                                           head_meta.LastModified, run, pos)]
    /\ IF dry_run
       THEN /\ total_chunks' = total_chunks + DryRunCount(docs_chunks)
            /\ Record(s3_objs[pos], "ok", DryRunCount(docs_chunks))
            /\ pc' = "cleanup"
       ELSE /\ pc' = "add_texts"
            /\ UNCHANGED <<total_chunks, results>>
    /\ UNCHANGED <<envVars, run, dry_run, delete_local, s3_objs, pos, local_path,
                   head_meta, docs_chunks, returned, err, seedVars, bootDone,
                   creates, rmFailed, entriesAtStart, upserts, upsertLog, firstCount, initColl>>

\* what a failed object adds to the running total (lines 210, 212-213)
FailedCount_counted(n) == n

FailedCount(n) == 0

\* lines 160-161 and 210-213: add_texts, then the count is added
AddTexts ==
    /\ pc = "add_texts"
    /\ upsertLog' = upsertLog \cup {[config |-> ConfigOf(coll), alone |-> spc = "idle"]}
    /\ upserts' = upserts + 1
    /\ LET key == s3_objs[pos]
       IN \/ \* the index refuses or cannot be reached: nothing is written
             /\ total_chunks' = total_chunks + FailedCount(docs_chunks)
             /\ Record(key, "upsert_failed", 0)
             /\ pc' = AfterObjectFailure
             /\ UNCHANGED <<coll, firstCount>>
          \/ /\ coll.exists
             /\ coll.size = VectorSize
             /\ coll' = [coll EXCEPT !.points = UpsertPoints(@, batch.points)]
             /\ total_chunks' = total_chunks + Cardinality(batch.points)
             /\ Record(key, "ok", Cardinality(batch.points))
             /\ firstCount' =
                    IF firstCount[key] = NotReturned
                    THEN [firstCount EXCEPT ![key] = <<CountForKey(coll', key)>>]
                    ELSE firstCount
             /\ pc' = "cleanup"
    /\ UNCHANGED <<bucket, files, run, dry_run, delete_local, s3_objs, pos,
                   local_path, head_meta, docs_chunks, batch, returned, err,
                   seedVars, bootDone, creates, rmFailed, entriesAtStart, initColl>>

\* lines 214-219: the finally clause
Cleanup ==
    /\ pc = "cleanup"
    /\ \/ /\ delete_local
          /\ files' = files \ {local_path}
          /\ UNCHANGED rmFailed
       \/ /\ delete_local
          /\ rmFailed' = TRUE       \* os.remove raised OSError, ignored
          /\ UNCHANGED files
       \/ /\ ~delete_local
          /\ UNCHANGED <<files, rmFailed>>
    /\ NextObject
    /\ UNCHANGED <<bucket, coll, run, dry_run, delete_local, s3_objs, batch,
                   total_chunks, returned, err, seedVars, results, bootDone,
                   creates, entriesAtStart, upserts, upsertLog, firstCount, initColl>>

\* lines 221-222
Report ==
    /\ pc = "report"
    /\ returned' = <<total_chunks>>
    /\ pc' = "done"
    /\ UNCHANGED <<envVars, run, dry_run, delete_local, s3_objs, pos, local_path,
                   head_meta, docs_chunks, batch, total_chunks, err, seedVars,
                   histVars>>

RunStep ==
    \/ Enumerate \/ BootList \/ RecreateDelete \/ RecreateCreate \/ Vectorstore
    \/ Stage \/ Decode \/ Identify \/ AddTexts \/ Cleanup \/ Report

Next == PutObject \/ StartRun \/ RunStep

\* Runs of the pipeline one after the other, nothing else using the index.
Spec == Init /\ [][Next]_vars

\* ------------------------------------------------ create-collection-qdrant.py
\* ids = [str(uuid.uuid4()) for _ in sample_docs]
SampleIds == {<<"uuid", Decimal(j)>> : j \in 1..NumSampleDocs}

\* the sample documents carry no metadata
SamplePoints ==
    {[id |-> i, s3_key |-> NoPath, chunk_index |-> 0, filename |-> NoPath,
      s3_last_modified |-> 0, run |-> 0, pos |-> 0] : i \in SampleIds}

\* lines 7-14: the script is started
SeedStart ==
    /\ spc = "idle"
    /\ spc' = "list"
    /\ UNCHANGED <<envVars, runVars, histVars>>

\* lines 17-18
SeedList ==
    /\ spc = "list"
    /\ spc' = IF coll.exists THEN "add" ELSE "recreate_delete"
    /\ UNCHANGED <<envVars, runVars, histVars>>

\* lines 19-22: recreate_collection deletes ...
SeedRecreateDelete ==
    /\ spc = "recreate_delete"
    /\ coll' = Absent
    /\ spc' = "recreate_create"
    /\ UNCHANGED <<bucket, files, runVars, histVars>>

\* ... and creates
SeedRecreateCreate ==
    /\ spc = "recreate_create"
    /\ IF coll.exists
       THEN /\ spc' = "failed"
            /\ UNCHANGED coll
       ELSE /\ coll' = CosineCollection
            /\ spc' = "add"
    /\ UNCHANGED <<bucket, files, runVars, histVars>>

\* lines 26-48: the sample documents are added under fresh ids
SeedAdd ==
    /\ spc = "add"
    /\ IF coll.exists /\ coll.size = VectorSize
       THEN /\ coll' = [coll EXCEPT !.points = UpsertPoints(@, SamplePoints)]
            /\ spc' = "done"
       ELSE /\ spc' = "failed"
            /\ UNCHANGED coll
    /\ UNCHANGED <<bucket, files, runVars, histVars>>

SeedStep ==
    SeedStart \/ SeedList \/ SeedRecreateDelete \/ SeedRecreateCreate \/ SeedAdd

OverlapNext == Next \/ SeedStep

\* The same runs while the seeding script runs against the same index.
OverlapSpec == Init /\ [][OverlapNext]_vars

\* Every started run keeps executing: a step of ingest_from_s3 that is enabled
\* is eventually taken (each call it makes returns or raises).
LiveSpec == Spec /\ WF_vars(RunStep)

\* ================================================================ claims
LoopPcs == {"stage", "decode", "identify", "add_texts", "cleanup"}

Keys(rs) == [i \in 1..Len(rs) |-> rs[i].key]

RECURSIVE SumCounts(_)
SumCounts(rs) ==
    IF rs = <<>> THEN 0
    ELSE (IF rs[1].outcome = "ok" THEN rs[1].count ELSE 0) + SumCounts(Tail(rs))

IdsInIndex(key) == {p.id : p \in {q \in Points(coll) : q.s3_key = key}}

\* C1: re-ingestion never duplicates. Whenever a run has prepared the chunks of
\* an object, the identifiers it computed are exactly the identifiers the index
\* already holds for that key (if it holds any), and once a key has been
\* ingested successfully the number of index entries for it never exceeds the
\* number it had right after that first ingestion.
C1_NoDuplicates ==
    /\ batch # NoBatch =>
          \/ IdsInIndex(batch.s3_key) = {}
          \/ IdsInIndex(batch.s3_key) = {p.id : p \in batch.points}
    /\ \A k \in AllKeys :
          firstCount[k] # NotReturned => CountForKey(coll, k) <= firstCount[k][1]

\* a second run (not a dry run) has upserted again a key that the index already
\* held when the run started
C1_Witness ==
    /\ run = 2
    /\ ~dry_run
    /\ pc = "cleanup"
    /\ results[Len(results)].outcome = "ok"
    /\ \E p \in entriesAtStart : p.s3_key = s3_objs[pos]
    /\ firstCount[s3_objs[pos]] = <<CountForKey(coll, s3_objs[pos])>>
    /\ CountForKey(coll, s3_objs[pos]) = MaxChunks

\* C2: per-object failure isolation. Inside the loop the objects attempted so
\* far are exactly the listing up to the loop index, in order, one result each;
\* a run that entered the loop never aborts, reports with one result per listed
\* object, and (under LiveSpec) always reaches the report.
C2_AttemptedInOrder ==
    /\ pc \in LoopPcs =>
          /\ pos \in 1..Len(s3_objs)
          /\ Len(results) = IF pc = "cleanup" THEN pos ELSE pos - 1
          /\ Keys(results) = SubSeq(s3_objs, 1, Len(results))
          /\ err = ""
    /\ pc \in {"report", "done"} => Keys(results) = s3_objs
    /\ pc = "aborted" => results = <<>>

C2_Isolation == []C2_AttemptedInOrder /\ ((pc \in LoopPcs) ~> (pc = "done"))

\* the first object failed, a later one was still staged, decoded and upserted
C2_Witness ==
    /\ pc = "done"
    /\ ~dry_run
    /\ Len(results) = 2
    /\ results[1].outcome # "ok"
    /\ results[2].outcome = "ok"
    /\ CountForKey(coll, results[2].key) > 0
    /\ returned = <<results[2].count>>

\* C3: with cleanup enabled and no os.remove failing, no staged file remains
\* when a per-object iteration has ended (the loop is at the next object, or
\* past the last one).
C3_StagedFileReleased ==
    (delete_local /\ ~rmFailed /\ pc \in {"stage", "report", "done"}) => files = {}

\* C4: a dry run issues no upsert and leaves the points of the collection as
\* they were when it started; and the total a run reports without an upsert
\* failure is the sum, over the objects staged and decoded successfully, of
\* their chunk counts, whether the run is a dry run or not.
StagedAndDecoded(rs) == SelectSeq(rs, LAMBDA r : r.outcome \in {"ok", "upsert_failed"})

RECURSIVE SumChunks(_)
SumChunks(rs) == IF rs = <<>> THEN 0 ELSE NChunks(rs[1].key) + SumChunks(Tail(rs))

C4_DryRun ==
    /\ (run > 0 /\ dry_run) => (upserts = 0 /\ Points(coll) = entriesAtStart)
    /\ (pc = "done" /\ \A i \in 1..Len(results) : results[i].outcome # "upsert_failed")
          => returned = <<SumChunks(StagedAndDecoded(results))>>

\* a dry run against an empty collection has reported a non-zero total
C4_Witness ==
    /\ pc = "done"
    /\ dry_run
    /\ returned # NotReturned
    /\ returned[1] > 0
    /\ coll.exists
    /\ Points(coll) = {}

ExpectedConfig == [exists |-> TRUE, size |-> VectorSize, distance |-> "Cosine"]

\* C5 as claimed: at every upsert issued the collection exists with
\* dimensionality 384 and cosine distance, whatever the index held initially.
C5_Original == \A u \in upsertLog : u.config = ExpectedConfig

\* C5 amended: at every upsert issued by a run that run's bootstrap has
\* returned; the collection exists then, unless another process has been
\* bootstrapping it meanwhile; and whenever it exists it has dimensionality 384
\* and cosine distance, unless it was there before the pipeline with another
\* configuration (which bootstrap does not look at).
C5_Amended ==
    /\ pc = "add_texts" => bootDone
    /\ \A u \in upsertLog :
          /\ u.alone => u.config.exists
          /\ (u.config.exists /\ initColl \in {ConfigOf(Absent), ExpectedConfig})
                => u.config = ExpectedConfig

\* an upsert went to a collection that the pipeline or the script created
C5_Witness ==
    /\ ~initColl.exists
    /\ pc = "cleanup"
    /\ upserts > 0
    /\ \E u \in upsertLog : u.config = ExpectedConfig

\* C6: when enumeration or bootstrap raised, the run is aborted with the error
\* propagating: nothing has been staged, decoded or upserted and no total is
\* returned.
C6_Fatal ==
    err \in {"ListError", "QdrantError"} =>
        /\ pc = "aborted"
        /\ results = <<>>
        /\ files = {}
        /\ upserts = 0
        /\ returned = NotReturned

\* the creation of the collection failed
C6_Witness ==
    /\ pc = "aborted"
    /\ err = "QdrantError"
    /\ creates = 1
    /\ Len(s3_objs) > 0

\* the chunks whose identifiers are known: those stored and those just prepared
KnownChunks == {p \in Points(coll) : p.s3_key # NoPath} \cup batch.points

\* C7: identifier determinism. Two chunks have the same identifier exactly when
\* they have the same source key and the same index, whichever run, dry-run
\* flag or listing position they come from, and the identifier is the digest of
\* key + "::" + index.
C7_Determinism ==
    \A p, q \in KnownChunks :
        /\ (p.id = q.id) <=> (p.s3_key = q.s3_key /\ p.chunk_index = q.chunk_index)
        /\ p.id = md5_id(p.s3_key \o <<":", ":">> \o Decimal(p.chunk_index))

\* a dry run prepared, at another listing position, the identifier that an
\* earlier run had stored
C7_Witness ==
    /\ batch.dry
    /\ \E p \in batch.points, q \in Points(coll) :
          /\ p.id = q.id
          /\ p.run # q.run
          /\ p.pos # q.pos
    /\ \E p, q \in KnownChunks : p.s3_key = q.s3_key /\ p.id # q.id

\* C8: total accounting. The running total is the sum of the counts returned by
\* the writer for the objects that succeeded, the value reported is that total,
\* and the running total never decreases during a run.
C8_TotalIsSum ==
    /\ pc \in LoopPcs \cup {"report", "done"} => total_chunks = SumCounts(results)
    /\ pc = "done" => returned = <<total_chunks>>

C8_Accounting ==
    /\ []C8_TotalIsSum
    /\ [][(pc \in LoopPcs) => (total_chunks' >= total_chunks)]_vars

\* a run with a failed object and a successful one has reported
C8_Witness ==
    /\ pc = "done"
    /\ Len(results) = 2
    /\ results[1].outcome = "upsert_failed"
    /\ results[2].outcome = "ok"
    /\ returned = <<results[2].count>>
    /\ returned = <<MaxChunks>>

\* C9: bootstrap creates at most once per run and only when the collection is
\* absent; no step of bootstrap changes a collection that exists.
C9_BootstrapFrame ==
    /\ [](creates <= 1)
    /\ [][(pc \in {"boot_list", "recreate_delete", "recreate_create"}
            /\ pc' # pc /\ coll.exists) => coll' = coll]_vars

PhaseOf(p) ==
    CASE p = "enumerate" -> "ENUMERATE"
      [] p \in {"boot_list", "recreate_delete", "recreate_create", "vectorstore"}
            -> "BOOTSTRAP"
      [] p = "stage" -> "STAGE"
      [] p = "decode" -> "DECODE"
      [] p = "identify" -> "IDENTIFY"
      [] p = "add_texts" -> "UPSERT"
      [] p = "cleanup" -> "CLEANUP"
      [] p = "report" -> "REPORT"
      [] OTHER -> "END"

CodeOrder ==
    {<<"END", "ENUMERATE">>, <<"ENUMERATE", "BOOTSTRAP">>, <<"ENUMERATE", "END">>,
     <<"BOOTSTRAP", "STAGE">>, <<"BOOTSTRAP", "END">>,
     <<"STAGE", "DECODE">>, <<"STAGE", "REPORT">>,
     <<"DECODE", "IDENTIFY">>, <<"DECODE", "CLEANUP">>,
     <<"IDENTIFY", "UPSERT">>, <<"IDENTIFY", "CLEANUP">>,
     <<"UPSERT", "CLEANUP">>,
     <<"CLEANUP", "STAGE">>, <<"CLEANUP", "REPORT">>,
     <<"REPORT", "END">>}

====
